---- MODULE Spec2Model ----
(***************************************************************************)
(* Model of the event-driven image resizer: the queue-triggered handler    *)
(* lambda/lambda_function.py and the wiring of cdk/cdk_stack.py (raw       *)
(* bucket -> object-created notification -> queue -> handler, batch size   *)
(* one; handler -> resized bucket, topic).                                 *)
(*                                                                         *)
(* Each network call of the handler is one atomic step of an invocation;   *)
(* invocations interleave at that grain.  Object storage follows the       *)
(* service's contract as the handler uses it: get_object of a missing key  *)
(* raises, put_object overwrites, delete_object of a missing key succeeds. *)
(***************************************************************************)
EXTENDS Integers, Sequences, FiniteSets, TLC

\* ---------------------------------------------------------------- bounds
MaxBatch == 2        \* records in the event of a directly invoked handler
MaxInv == 2          \* invocations the trigger starts in the pipeline
MaxUploads == 2      \* client uploads through the gateway
MaxSide == 5         \* largest width and height of a source image, in pixels
MaxPosts == 2        \* POSTs to the subscribe route

\* ------------------------------------------------------------- resources
RAW_BUCKET == "RawImageBucket"
RESIZED_BUCKET == "ResizedImageBucket"
PROCESSED_BUCKET_NAME == RESIZED_BUCKET
SNS_TOPIC_ARN == "ImageResizeTopic"
Buckets == {RAW_BUCKET, RESIZED_BUCKET}
expiration == 3600

Keys == {<<"a">>, <<"b">>, <<"c">>}

\* An object's content: an encoded image of w x h pixels showing picture id,
\* or bytes that are no image (img = FALSE).
Img(id, w, h) == [img |-> TRUE, id |-> id, w |-> w, h |-> h]
NotImage == [img |-> FALSE, id |-> 0, w |-> 0, h |-> 0]
NoContent == [img |-> FALSE, id |-> -1, w |-> 0, h |-> 0]
Contents == {Img(1, 4, 6), Img(2, 2, 3), Img(3, 1, 4), NotImage}

\* What clients upload in the pipeline.
UploadKeys == {<<"a">>, <<"b">>}
UploadContents == {Img(1, 4, 6), Img(2, 2, 3), NotImage}

\* ------------------------------------------------------------ queue body
\* The body of a queue message as json.loads and the subscripts of lines
\* 30-33 see it: shape "ok" has Records[0].s3.bucket.name and a string
\* Records[0].s3.object.key; "intkey" has a key that is a JSON number;
\* "nokey" is JSON without the keys read; "notjson" does not parse.
Body(shape, b, k) == [shape |-> shape, bucket |-> b, key |-> k]
S3Event(b, k) == Body("ok", b, k)
MalformedBodies ==
    {Body("notjson", "", <<>>), Body("nokey", "", <<>>),
     Body("intkey", RAW_BUCKET, <<"7">>)}
Bodies ==
    {S3Event(RAW_BUCKET, k) : k \in Keys}
        \cup {S3Event(RESIZED_BUCKET, <<"a">>)} \cup MalformedBodies

RECURSIVE SeqsUpTo(_, _)
SeqsUpTo(S, n) ==
    IF n = 0 THEN {<<>>}
    ELSE LET shorter == SeqsUpTo(S, n - 1)
         IN shorter \cup {Append(s, x) : s \in {t \in shorter : Len(t) = n - 1}, x \in S}

\* ----------------------------------------------------------------- state
VARIABLES
    s3,        \* bucket name -> (key -> content), the objects stored
    sent,      \* the notifications enqueued so far, in order; a message's id is its index
    queue,     \* ids of the messages still on the queue
    hidden,    \* ids of the messages in flight (invisible)
    inv,       \* invocation -> the handler's position and locals
    calls,     \* invocation -> the service calls it made so far, in order
    log,       \* invocation -> the lines it printed so far, in order
    uploads,   \* number of gateway uploads so far
    gateway    \* the gateway's subscribe requests, Subscribe calls and responses

vars == <<s3, sent, queue, hidden, inv, calls, log, uploads, gateway>>

Invocations == 1 .. MaxInv

NoUrl == [bucket |-> "", key |-> <<>>, expires |-> 0]
NoMessage == [default |-> "", email |-> <<"", NoUrl>>]

Idle ==
    [pc |-> "idle", event |-> <<>>, idx |-> 0, msgs |-> {},
     source_bucket_name |-> "", file_key |-> <<>>, key_is_str |-> TRUE,
     s3_file_content |-> NoContent, buffer |-> NoContent,
     presigned_url |-> NoUrl, exc |-> "", statusCode |-> 0]

Started(event, msgs) ==
    [Idle EXCEPT !.pc = "loop", !.event = event, !.idx = 1, !.msgs = msgs]

\* ------------------------------------------------------- object storage
S3Has(b, k) == k \in DOMAIN s3[b]

S3Put(store, b, k, c) == [store EXCEPT ![b] = (k :> c) @@ @]

\* A delete that removes the processed object instead of the source object.
S3DeleteProcessed(store, b, k) ==
    [store EXCEPT ![RESIZED_BUCKET] =
        [x \in (DOMAIN @) \ {<<"processed-">> \o k} |-> @[x]]]

S3Delete(store, b, k) ==
    [store EXCEPT ![b] = [x \in (DOMAIN @) \ {k} |-> @[x]]]

\* A provisioning in which the resized bucket sends its events too.
NotifiesEveryBucket(b) == b \in {RAW_BUCKET, RESIZED_BUCKET}

\* The buckets whose object-created events go to the queue.
Notifies(b) == b = RAW_BUCKET

\* The notifications of one object creation in bucket b under key k.
Created(b, k) == IF Notifies(b) THEN <<S3Event(b, k)>> ELSE <<>>

Enqueue(bodies) ==
    /\ sent' = sent \o bodies
    /\ queue' = queue \cup (Len(sent) + 1 .. Len(sent) + Len(bodies))

\* ------------------------------------------------------------- handler
Call(i, op, b, k, ok, body, message) ==
    [rec |-> inv[i].idx, op |-> op, bucket |-> b, key |-> k,
     ok |-> ok, body |-> body, message |-> message]

Line(i, line, step) == [rec |-> inv[i].idx, line |-> line, step |-> step]

Called(i, call) == [calls EXCEPT ![i] = Append(@, call)]

Printed(i, line) == [log EXCEPT ![i] = Append(@, line)]

\* Lines 30-36, outside the try block: what the parse of a record and the
\* recursion guard raise ("" when they raise nothing).
ParseError(record) ==
    CASE record.shape = "notjson" -> "JSONDecodeError"
      [] record.shape = "nokey" -> "KeyError"
      [] record.bucket = PROCESSED_BUCKET_NAME -> "AssertionError"
      [] OTHER -> ""

\* An exception that no except clause of the handler covers leaves
\* lambda_handler: the invocation ends without a response.
RaiseOut(self, exc) == [self EXCEPT !.pc = "raised", !.exc = exc]

\* The end of the loop body: on with the next record of the event.
Advance(self) == [self EXCEPT !.pc = "loop", !.idx = @ + 1]

\* A handler that re-raises what it caught.
CaughtReraises(self) == RaiseOut(self, "Exception")

\* A handler that breaks out of the loop instead of continuing.
CaughtBreaks(self) == [self EXCEPT !.pc = "loop", !.idx = Len(self.event) + 1]

\* Lines 85-91: an exception raised inside the try block is printed and the
\* loop goes on with the next record.
Caught(self) == Advance(self)

\* Publish and delete swapped.
StepOrderDeleteFirst == <<"get", "resize", "put", "presign", "delete", "publish">>

\* Lines 43-80: the statements of the try block, in order.
StepOrder == <<"get", "resize", "put", "presign", "publish", "delete">>

After(step) ==
    LET n == CHOOSE j \in 1 .. Len(StepOrder) : StepOrder[j] = step
    IN IF n = Len(StepOrder) THEN "end" ELSE StepOrder[n + 1]

\* The statement `step` went through: on to the one after it.
Proceed(self, step) ==
    IF After(step) = "end" THEN Advance(self) ELSE [self EXCEPT !.pc = After(step)]

ExceptLine(exc) == IF exc = "AssertionError" THEN 87 ELSE 89

\* Halving that rounds to the nearest pixel, halves upwards.
HalfRoundsUp(n) == (n + 1) \div 2

\* int(width / 2), int(height / 2) of line 55: the true quotient of a
\* non-negative integer by 2, truncated towards zero.
Half(n) == n \div 2

NewSize(content) == <<Half(content.w), Half(content.h)>>

\* Lines 52-58: whether decoding, resizing and saving as JPEG go through.
\* Bytes that are no image do not open; a target size with a zero axis is
\* rejected by the resize or by the JPEG encoder.
Encodes(content) ==
    /\ content.img
    /\ NewSize(content)[1] > 0
    /\ NewSize(content)[2] > 0

Resized(content) ==
    Img(content.id, NewSize(content)[1], NewSize(content)[2])

\* The processed object stored under the source key itself.
ProcessedKeyNoPrefix(file_key) == file_key

\* Line 61.
ProcessedKey(file_key) == <<"processed-">> \o file_key

\* Lines 16-24.
PresignedUrl(bucket_name, object_key) ==
    [bucket |-> bucket_name, key |-> object_key, expires |-> expiration]

\* An email rendering that leaves the link out.
SnsMessageNoLink(presigned_url) ==
    [default |-> "Your image has been processed successfully.",
     email |-> <<"Your image has been processed.", NoUrl>>]

\* Lines 70-73.
SnsMessage(presigned_url) ==
    [default |-> "Your image has been processed successfully.",
     email |-> <<"Your image has been processed and is available at the following link: ",
                 presigned_url>>]

\* Lines 29-36: the next record of the event is parsed and guarded.
Parse(i) ==
    /\ inv[i].pc = "loop"
    /\ inv[i].idx <= Len(inv[i].event)
    /\ LET record == inv[i].event[inv[i].idx]
           exc == ParseError(record)
       IN inv' = [inv EXCEPT ![i] =
                    IF exc # ""
                    THEN RaiseOut(@, exc)
                    ELSE [@ EXCEPT !.pc = StepOrder[1],
                                   !.source_bucket_name = record.bucket,
                                   !.file_key = record.key,
                                   !.key_is_str = record.shape # "intkey"]]
    /\ UNCHANGED <<s3, sent, queue, hidden, calls, log, uploads, gateway>>

\* Lines 40-45: the key check and get_object; `fault` is a failure of the call
\* for a reason outside the model (access, network).
GetObject(i, Faults) ==
    /\ inv[i].pc = "get"
    /\ \E fault \in Faults :
         LET self == inv[i]
             b == self.source_bucket_name
             k == self.file_key
             ok == S3Has(b, k) /\ ~fault
         IN IF ~self.key_is_str
            THEN /\ inv' = [inv EXCEPT ![i] = Caught(@)]
                 /\ log' = Printed(i, Line(i, ExceptLine("ValueError"), "key"))
                 /\ calls' = calls
            ELSE /\ calls' = Called(i, Call(i, "get_object", b, k, ok, NoContent, NoMessage))
                 /\ IF ok
                    THEN /\ inv' = [inv EXCEPT ![i] = Proceed([@ EXCEPT !.s3_file_content = s3[b][k]], "get")]
                         /\ log' = log
                    ELSE /\ inv' = [inv EXCEPT ![i] = Caught(@)]
                         /\ log' = Printed(i, Line(i, ExceptLine("ClientError"), "get"))
    /\ UNCHANGED <<s3, sent, queue, hidden, uploads, gateway>>

\* Lines 48-58: decode, halve, re-encode into buffer.  Bytes that open as an
\* image reach the resize call of line 55, recorded with the target size it
\* is passed (as the body of the call).
Resize(i) ==
    /\ inv[i].pc = "resize"
    /\ LET content == inv[i].s3_file_content
       IN /\ calls' = IF content.img
                      THEN Called(i, Call(i, "resize", "", <<>>, Encodes(content),
                                          Resized(content), NoMessage))
                      ELSE calls
          /\ IF Encodes(content)
             THEN /\ inv' = [inv EXCEPT ![i] = Proceed([@ EXCEPT !.buffer = Resized(content)], "resize")]
                  /\ log' = log
             ELSE /\ inv' = [inv EXCEPT ![i] = Caught(@)]
                  /\ log' = Printed(i, Line(i, ExceptLine("ImageError"), "resize"))
    /\ UNCHANGED <<s3, sent, queue, hidden, uploads, gateway>>

\* Lines 61-62.
PutObject(i, Faults) ==
    /\ inv[i].pc = "put"
    /\ \E fault \in Faults :
         LET self == inv[i]
             k == ProcessedKey(self.file_key)
             ok == ~fault
         IN /\ calls' = Called(i, Call(i, "put_object", PROCESSED_BUCKET_NAME, k, ok,
                                           self.buffer, NoMessage))
            /\ IF ok
               THEN /\ s3' = S3Put(s3, PROCESSED_BUCKET_NAME, k, self.buffer)
                    /\ Enqueue(Created(PROCESSED_BUCKET_NAME, k))
                    /\ inv' = [inv EXCEPT ![i] = Proceed(@, "put")]
                    /\ log' = log
               ELSE /\ inv' = [inv EXCEPT ![i] = Caught(@)]
                    /\ log' = Printed(i, Line(i, ExceptLine("ClientError"), "put"))
                    /\ UNCHANGED <<s3, sent, queue>>
    /\ UNCHANGED <<hidden, uploads, gateway>>

\* Lines 65-67 with generate_presigned_url, lines 16-24: a failure inside
\* generate_presigned_url is printed and becomes None, which line 67 raises on.
Presign(i, Faults) ==
    /\ inv[i].pc = "presign"
    /\ \E fault \in Faults :
         LET self == inv[i]
             k == ProcessedKey(self.file_key)
             response == IF fault THEN NoUrl ELSE PresignedUrl(PROCESSED_BUCKET_NAME, k)
             ok == response # NoUrl
         IN /\ calls' = Called(i, Call(i, "generate_presigned_url",
                                           PROCESSED_BUCKET_NAME, k, ok, NoContent, NoMessage))
            /\ IF ok
               THEN /\ inv' = [inv EXCEPT ![i] = Proceed([@ EXCEPT !.presigned_url = response], "presign")]
                    /\ log' = log
               ELSE /\ inv' = [inv EXCEPT ![i] = Caught([@ EXCEPT !.presigned_url = response])]
                    /\ log' = Printed(i, Line(i, ExceptLine("ValueError"), "presign"))
    /\ UNCHANGED <<s3, sent, queue, hidden, uploads, gateway>>

\* Lines 70-78.
Publish(i, Faults) ==
    /\ inv[i].pc = "publish"
    /\ \E fault \in Faults :
         LET self == inv[i]
             ok == ~fault
         IN /\ calls' = Called(i, Call(i, "publish", SNS_TOPIC_ARN, <<>>, ok, NoContent,
                                           SnsMessage(self.presigned_url)))
            /\ IF ok
               THEN /\ inv' = [inv EXCEPT ![i] = Proceed(@, "publish")]
                    /\ log' = IF After("publish") = "end"
                              THEN Printed(i, Line(i, 82, "ok")) ELSE log
               ELSE /\ inv' = [inv EXCEPT ![i] = Caught(@)]
                    /\ log' = Printed(i, Line(i, ExceptLine("ClientError"), "publish"))
    /\ UNCHANGED <<s3, sent, queue, hidden, uploads, gateway>>

\* Lines 80-83: delete_object, which succeeds whether or not the key exists.
DeleteObject(i, Faults) ==
    /\ inv[i].pc = "delete"
    /\ \E fault \in Faults :
         LET self == inv[i]
             b == self.source_bucket_name
             k == self.file_key
             ok == ~fault
         IN /\ calls' = Called(i, Call(i, "delete_object", b, k, ok, NoContent, NoMessage))
            /\ IF ok
               THEN /\ s3' = S3Delete(s3, b, k)
                    /\ inv' = [inv EXCEPT ![i] = Proceed(@, "delete")]
                    /\ log' = IF After("delete") = "end"
                              THEN Printed(i, Line(i, 82, "ok")) ELSE log
               ELSE /\ s3' = s3
                    /\ inv' = [inv EXCEPT ![i] = Caught(@)]
                    /\ log' = Printed(i, Line(i, ExceptLine("ClientError"), "delete"))
    /\ UNCHANGED <<sent, queue, hidden, uploads, gateway>>

\* Lines 93-96: the loop is over; the fixed response.
Return(i) ==
    /\ inv[i].pc = "loop"
    /\ inv[i].idx > Len(inv[i].event)
    /\ inv' = [inv EXCEPT ![i] = [@ EXCEPT !.pc = "returned", !.statusCode = 200]]
    /\ UNCHANGED <<s3, sent, queue, hidden, calls, log, uploads, gateway>>

Step(i, Faults) ==
    \/ Parse(i)
    \/ GetObject(i, Faults)
    \/ Resize(i)
    \/ PutObject(i, Faults)
    \/ Presign(i, Faults)
    \/ Publish(i, Faults)
    \/ DeleteObject(i, Faults)
    \/ Return(i)

\* ------------------------------------------------------------- gateway
NoTraffic == [subscribe_requests |-> <<>>, subscribe_calls |-> <<>>, responses |-> {}]

\* The role the gateway forwards with may put objects into the two buckets of
\* the stack and into no other.
GatewayMayPut(b) == b \in {RAW_BUCKET, RESIZED_BUCKET}

\* The integration responses of each route: one entry, statusCode "200", with
\* no selection pattern ("" here).
IntegrationResponses(route) ==
    {[selectionPattern |-> "", statusCode |-> 200,
      Message |-> IF route = "subscribe"
                  THEN "Subscription request has been sent."
                  ELSE "Image was uploaded successfully. Make sure to subscribe to receive the image link."]}

\* The status of the forwarded call as the service answers it.
BackendStatus(ok) == IF ok THEN "2xx" ELSE "4xx"

\* An integration response is selected when its pattern matches the status of
\* the forwarded call; the entry without a pattern is the default, selected
\* for every status that no pattern matches.
Selected(route, status) ==
    LET matching == {r \in IntegrationResponses(route) : r.selectionPattern = status}
    IN IF matching # {}
       THEN CHOOSE r \in matching : TRUE
       ELSE CHOOSE r \in IntegrationResponses(route) : r.selectionPattern = ""

\* What the caller of a route gets, with the outcome of the forwarded call.
Response(route, ok) ==
    LET r == Selected(route, BackendStatus(ok))
    IN [route |-> route, ok |-> ok, statusCode |-> r.statusCode, Message |-> r.Message]

\* A subscribe body that sets Protocol and TopicArn when it names them.
SubscribeParametersFromBody(body) ==
    [Endpoint |-> body["email"],
     Protocol |-> IF "Protocol" \in DOMAIN body THEN body["Protocol"] ELSE "email",
     TopicArn |-> IF "TopicArn" \in DOMAIN body THEN body["TopicArn"] ELSE SNS_TOPIC_ARN]

\* The request parameters of the subscribe integration: Endpoint from the
\* body's email, Protocol and TopicArn literals.
SubscribeParameters(body) ==
    [Endpoint |-> body["email"], Protocol |-> "email", TopicArn |-> SNS_TOPIC_ARN]

\* The topic takes a subscription whose endpoint is an email address.
Emails == {"user@example.com", "not-an-address"}

SubscribeSucceeds(call) == call.Endpoint = "user@example.com"

\* JSON bodies with an email field and any of the fields Protocol, TopicArn.
OtherFields ==
    {<<>>, "Protocol" :> "sms", "TopicArn" :> "OtherTopic",
     ("Protocol" :> "sms") @@ ("TopicArn" :> "OtherTopic")}

SubscribeBodies == {("email" :> e) @@ other : e \in Emails, other \in OtherFields}

\* POST /subscribe: one Subscribe call to the topic service, and the
\* integration response selected for its outcome.
Subscribe(body) ==
    /\ Len(gateway.subscribe_requests) < MaxPosts
    /\ LET call == SubscribeParameters(body)
       IN gateway' = [gateway EXCEPT
                        !.subscribe_requests = Append(@, body),
                        !.subscribe_calls = Append(@, call),
                        !.responses = @ \cup {Response("subscribe", SubscribeSucceeds(call))}]
    /\ UNCHANGED <<s3, sent, queue, hidden, inv, calls, log, uploads>>

\* ------------------------------------------- one invocation, any event
Events == SeqsUpTo(Bodies, MaxBatch)

RawStores == UNION {[S -> Contents] : S \in SUBSET Keys}

Init ==
    /\ \E raw \in RawStores :
         s3 = [b \in Buckets |-> IF b = RAW_BUCKET THEN raw ELSE <<>>]
    /\ sent = <<>>
    /\ queue = {}
    /\ hidden = {}
    /\ \E event \in Events :
         inv = [i \in Invocations |-> IF i = 1 THEN Started(event, {}) ELSE Idle]
    /\ calls = [i \in Invocations |-> <<>>]
    /\ log = [i \in Invocations |-> <<>>]
    /\ uploads = 0
    /\ gateway = NoTraffic

Next == Step(1, BOOLEAN)

Spec == Init /\ [][Next]_vars

\* ------------------------------------------------------------ pipeline
\* The gateway's PUT /upload-image/{bucket}/{filename}: a put_object into the
\* named bucket, whose object-created event goes to the queue.
Upload(b, k, c) ==
    /\ uploads < MaxUploads
    /\ uploads' = uploads + 1
    /\ LET ok == GatewayMayPut(b)
       IN /\ IF ok
             THEN /\ s3' = S3Put(s3, b, k, c)
                  /\ Enqueue(Created(b, k))
             ELSE UNCHANGED <<s3, sent, queue>>
          /\ gateway' = [gateway EXCEPT !.responses = @ \cup {Response("upload-image", ok)}]
    /\ UNCHANGED <<hidden, inv, calls, log>>

\* The queue's event source: a visible message is handed, alone, to a new
\* invocation of the handler and becomes invisible.
Deliver(i, m) ==
    /\ inv[i].pc = "idle"
    /\ \A j \in 1 .. i - 1 : inv[j].pc # "idle"
    /\ m \in queue \ hidden
    /\ hidden' = hidden \cup {m}
    /\ inv' = [inv EXCEPT ![i] = Started(<<sent[m]>>, {m})]
    /\ UNCHANGED <<s3, sent, queue, calls, log, uploads, gateway>>

\* The visibility timeout of a message in flight runs out: it can be
\* delivered again, whether or not the invocation that has it is over.
VisibilityTimeout(m) ==
    /\ m \in hidden
    /\ hidden' = hidden \ {m}
    /\ UNCHANGED <<s3, sent, queue, inv, calls, log, uploads, gateway>>

\* An event source that deletes only the messages whose record went through.
SettleLeavesFailed(i) ==
    /\ inv[i].pc \in {"returned", "raised"}
    /\ IF inv[i].pc = "returned"
       THEN LET done == IF \E n \in 1 .. Len(log[i]) : log[i][n].line = 89
                        THEN {} ELSE inv[i].msgs
            IN /\ queue' = queue \ done
               /\ hidden' = hidden \ done
               /\ inv' = [inv EXCEPT ![i] = [@ EXCEPT !.pc = "acked"]]
       ELSE /\ inv' = [inv EXCEPT ![i] = [@ EXCEPT !.pc = "failed"]]
            /\ UNCHANGED <<queue, hidden>>
    /\ UNCHANGED <<s3, sent, calls, log, uploads, gateway>>

\* The event source after the invocation: messages of an invocation that
\* returned are deleted from the queue, those of one that raised are left.
Settle(i) ==
    /\ inv[i].pc \in {"returned", "raised"}
    /\ IF inv[i].pc = "returned"
       THEN /\ queue' = queue \ inv[i].msgs
            /\ hidden' = hidden \ inv[i].msgs
            /\ inv' = [inv EXCEPT ![i] = [@ EXCEPT !.pc = "acked"]]
       ELSE /\ inv' = [inv EXCEPT ![i] = [@ EXCEPT !.pc = "failed"]]
            /\ UNCHANGED <<queue, hidden>>
    /\ UNCHANGED <<s3, sent, calls, log, uploads, gateway>>

Empty == [b \in Buckets |-> <<>>]

InitPipeline ==
    /\ s3 = Empty
    /\ sent = <<>>
    /\ queue = {}
    /\ hidden = {}
    /\ inv = [i \in Invocations |-> Idle]
    /\ calls = [i \in Invocations |-> <<>>]
    /\ log = [i \in Invocations |-> <<>>]
    /\ uploads = 0
    /\ gateway = NoTraffic

NextPipeline ==
    \/ \E k \in UploadKeys, c \in UploadContents : Upload(RAW_BUCKET, k, c)
    \/ \E i \in Invocations, m \in queue : Deliver(i, m)
    \/ \E m \in queue : VisibilityTimeout(m)
    \/ \E i \in Invocations : Step(i, BOOLEAN)
    \/ \E i \in Invocations : Settle(i)

SpecPipeline == InitPipeline /\ [][NextPipeline]_vars

\* ------------------------------- one notification, delivered repeatedly
\* One object uploaded and its notification on the queue; from there only
\* deliveries, redeliveries and handler steps, and no call fails for a reason
\* outside the model.
InitDup ==
    /\ \E k \in Keys, c \in Contents :
         s3 = [Empty EXCEPT ![RAW_BUCKET] = (k :> c)]
    /\ \E k \in DOMAIN s3[RAW_BUCKET] : sent = <<S3Event(RAW_BUCKET, k)>>
    /\ queue = {1}
    /\ hidden = {}
    /\ inv = [i \in Invocations |-> Idle]
    /\ calls = [i \in Invocations |-> <<>>]
    /\ log = [i \in Invocations |-> <<>>]
    /\ uploads = 1
    /\ gateway = NoTraffic

NextDup ==
    \/ \E i \in Invocations, m \in queue : Deliver(i, m)
    \/ \E m \in queue : VisibilityTimeout(m)
    \/ \E i \in Invocations : Step(i, {FALSE})
    \/ \E i \in Invocations : Settle(i)

SpecDup == InitDup /\ [][NextDup]_vars

\* ------------------------------------------- the gateway and the pipeline
\* The buckets a caller of the upload route can name: those of the stack and
\* one that is not of the stack.
UploadBuckets == {RAW_BUCKET, RESIZED_BUCKET, "OtherBucket"}

NextGateway ==
    \/ \E b \in UploadBuckets : Upload(b, <<"a">>, Img(1, 4, 6))
    \/ \E body \in SubscribeBodies : Subscribe(body)
    \/ \E i \in Invocations, m \in queue : Deliver(i, m)
    \/ \E i \in Invocations : Step(i, BOOLEAN)
    \/ \E i \in Invocations : Settle(i)

SpecGateway == InitPipeline /\ [][NextGateway]_vars

\* The two routes of the gateway alone, with no delivery from the queue.
NextRoutes ==
    \/ \E b \in UploadBuckets : Upload(b, <<"a">>, Img(1, 4, 6))
    \/ \E body \in SubscribeBodies : Subscribe(body)

SpecRoutes == InitPipeline /\ [][NextRoutes]_vars

\* --------------------------------- one image of every size, one invocation
Sizes == (1 .. MaxSide) \X (1 .. MaxSide)

\* One image of some size in the raw bucket and the handler invoked on its
\* notification; no call fails for a reason outside the model.
InitSizes ==
    /\ \E size \in Sizes :
         s3 = [Empty EXCEPT ![RAW_BUCKET] = (<<"a">> :> Img(1, size[1], size[2]))]
    /\ sent = <<>>
    /\ queue = {}
    /\ hidden = {}
    /\ inv = [i \in Invocations |->
                IF i = 1 THEN Started(<<S3Event(RAW_BUCKET, <<"a">>)>>, {}) ELSE Idle]
    /\ calls = [i \in Invocations |-> <<>>]
    /\ log = [i \in Invocations |-> <<>>]
    /\ uploads = 0
    /\ gateway = NoTraffic

NextSizes == Step(1, {FALSE})

SpecSizes == InitSizes /\ [][NextSizes]_vars

\* ------------------------------------- the pipeline under fair scheduling
\* The execution environment of an invocation that is over is free for the
\* next delivery; its trace is that of the new invocation from then on.
Recycle(i) ==
    /\ inv[i].pc \in {"acked", "failed"}
    /\ inv' = [inv EXCEPT ![i] = Idle]
    /\ calls' = [calls EXCEPT ![i] = <<>>]
    /\ log' = [log EXCEPT ![i] = <<>>]
    /\ UNCHANGED <<s3, sent, queue, hidden, uploads, gateway>>

NextLive ==
    \/ \E k \in UploadKeys, c \in UploadContents : Upload(RAW_BUCKET, k, c)
    \/ \E i \in Invocations, m \in queue : Deliver(i, m)
    \/ \E m \in queue : VisibilityTimeout(m)
    \/ \E i \in Invocations : Step(i, BOOLEAN)
    \/ \E i \in Invocations : Settle(i)
    \/ \E i \in Invocations : Recycle(i)

\* The event source keeps polling the queue, a started handler runs on to its
\* return or its exception, and the event source settles what is over.
Fairness ==
    /\ WF_vars(\E i \in Invocations, m \in queue : Deliver(i, m))
    /\ \A i \in Invocations :
         /\ WF_vars(Step(i, BOOLEAN))
         /\ WF_vars(Settle(i))
         /\ WF_vars(Recycle(i))

SpecLive == InitPipeline /\ [][NextLive]_vars /\ Fairness

\* ------------------------------------------------------ reading the trace
CallsAt(i) == 1 .. Len(calls[i])

CallIdx(i, r, op) == {n \in CallsAt(i) : calls[i][n].rec = r /\ calls[i][n].op = op}

CallFailed(i, r, op) == \E n \in CallIdx(i, r, op) : ~calls[i][n].ok

LineIdx(i, r, line) ==
    {n \in 1 .. Len(log[i]) : log[i][n].rec = r /\ log[i][n].line = line}

\* The records of invocation i's event that went through all steps / failed
\* inside the try block.
Succeeded(i) == {r \in 1 .. Len(inv[i].event) : LineIdx(i, r, 82) # {}}
FailedRecs(i) == {r \in 1 .. Len(inv[i].event) : LineIdx(i, r, 89) # {}}
FailedAt(i, r) == log[i][CHOOSE n \in LineIdx(i, r, 89) : TRUE].step

WellFormed(event) ==
    \A r \in 1 .. Len(event) : event[r].shape = "ok"

\* ----------------------------------------------------------------- claims

\* C1: a record whose source bucket is PROCESSED_BUCKET_NAME is skipped per
\* record: on a batch of well-formed records holding such a record the handler
\* never raises, and when it has returned it has attempted every other record
\* and returned statusCode 200.
C1_GuardViolationIsSkipped ==
    \A i \in Invocations :
        (/\ WellFormed(inv[i].event)
         /\ \E r \in 1 .. Len(inv[i].event) : inv[i].event[r].bucket = PROCESSED_BUCKET_NAME)
        => /\ inv[i].pc # "raised"
           /\ inv[i].pc = "returned" =>
                /\ inv[i].statusCode = 200
                /\ \A r \in 1 .. Len(inv[i].event) :
                     inv[i].event[r].bucket # PROCESSED_BUCKET_NAME
                         => CallIdx(i, r, "get_object") # {}

\* C3: a delete_object call of a record comes only after a publish call of the
\* same record that returned successfully, and never for a record whose put,
\* presign or publish failed.
C3_DeleteOnlyAfterPublish ==
    \A i \in Invocations : \A n \in CallsAt(i) :
        calls[i][n].op = "delete_object" =>
            /\ \E m \in 1 .. n - 1 :
                 /\ calls[i][m].op = "publish"
                 /\ calls[i][m].rec = calls[i][n].rec
                 /\ calls[i][m].ok
            /\ \A op \in {"put_object", "generate_presigned_url", "publish"} :
                 ~CallFailed(i, calls[i][n].rec, op)

C3_Witness ==
    \E i \in Invocations :
        /\ \E n \in CallsAt(i) : calls[i][n].op = "delete_object"
        /\ \E n \in CallsAt(i) : calls[i][n].op = "publish" /\ ~calls[i][n].ok

\* C4: a single record whose steps all succeed makes exactly one put_object to
\* the destination bucket under "processed-" + key, exactly one publish with a
\* default and an email rendering, and exactly one delete_object of the source
\* bucket and key, in that order.
C4_OneSuccessfulRun ==
    \A i \in Invocations :
        (inv[i].pc = "returned" /\ Len(inv[i].event) = 1 /\ Succeeded(i) = {1}) =>
            LET record == inv[i].event[1]
                puts == CallIdx(i, 1, "put_object")
                pubs == CallIdx(i, 1, "publish")
                dels == CallIdx(i, 1, "delete_object")
            IN /\ Cardinality(puts) = 1
               /\ Cardinality(pubs) = 1
               /\ Cardinality(dels) = 1
               /\ \A p \in puts, q \in pubs, d \in dels :
                    /\ p < q /\ q < d
                    /\ calls[i][p].bucket = PROCESSED_BUCKET_NAME
                    /\ calls[i][p].key = <<"processed-">> \o record.key
                    /\ calls[i][q].bucket = SNS_TOPIC_ARN
                    /\ calls[i][q].message.default # ""
                    /\ calls[i][q].message.email[1] # ""
                    /\ calls[i][q].message.email[2] # NoUrl
                    /\ calls[i][d].bucket = record.bucket
                    /\ calls[i][d].key = record.key

C4_Witness ==
    \E i \in Invocations :
        inv[i].pc = "returned" /\ Len(inv[i].event) = 1 /\ Succeeded(i) = {1}

\* C5: every failure while handling a record is contained to that record: the
\* handler never raises out of the invocation.
C5_NeverRaises == \A i \in Invocations : inv[i].pc # "raised"

\* C7: a record whose get_object failed gets no put_object, no publish and no
\* delete_object call, and the failure does not leave the handler.
C7_FetchFailureIsContained ==
    \A i \in Invocations : \A n \in CallsAt(i) :
        (calls[i][n].op = "get_object" /\ ~calls[i][n].ok) =>
            /\ \A op \in {"put_object", "publish", "delete_object"} :
                 CallIdx(i, calls[i][n].rec, op) = {}
            /\ inv[i].pc = "raised" => inv[i].idx # calls[i][n].rec

C7_Witness ==
    \E i \in Invocations : \E n \in CallsAt(i) :
        /\ calls[i][n].op = "get_object" /\ ~calls[i][n].ok
        /\ inv[i].pc = "returned"
        /\ calls[i][n].rec < Len(inv[i].event)

\* C8: a record whose presigned URL could not be generated gets no publish and
\* no delete_object call, and every publish carries the presigned URL of the
\* key "processed-" + key that the same record's processing stored before.
C8_NoNotificationWithoutLink ==
    \A i \in Invocations : \A n \in CallsAt(i) :
        LET r == calls[i][n].rec
            key == <<"processed-">> \o inv[i].event[r].key
        IN /\ (calls[i][n].op = "generate_presigned_url" /\ ~calls[i][n].ok) =>
                (CallIdx(i, r, "publish") = {} /\ CallIdx(i, r, "delete_object") = {})
           /\ calls[i][n].op = "publish" =>
                /\ calls[i][n].message.email[2] =
                       [bucket |-> PROCESSED_BUCKET_NAME, key |-> key, expires |-> 3600]
                /\ \E m \in 1 .. n - 1 :
                     /\ m \in CallIdx(i, r, "generate_presigned_url")
                     /\ calls[i][m].ok
                     /\ calls[i][m].key = key
                /\ \E m \in 1 .. n - 1 :
                     /\ m \in CallIdx(i, r, "put_object")
                     /\ calls[i][m].ok
                     /\ calls[i][m].bucket = PROCESSED_BUCKET_NAME
                     /\ calls[i][m].key = key

C8_Witness ==
    \E i \in Invocations :
        /\ \E n \in CallsAt(i) : calls[i][n].op = "generate_presigned_url" /\ ~calls[i][n].ok
        /\ \E n \in CallsAt(i) : calls[i][n].op = "publish" /\ calls[i][n].ok

\* C6 as stated: a batch of N records with distinct keys of which exactly one
\* failed, at whichever step, leaves exactly N-1 processed objects and N-1
\* publish calls, and the handler returns statusCode 200.
OneFailure(i) ==
    /\ inv[i].pc = "returned"
    /\ Len(inv[i].event) >= 1
    /\ \A r \in 1 .. Len(inv[i].event) : inv[i].event[r].bucket = RAW_BUCKET
    /\ \A r, q \in 1 .. Len(inv[i].event) :
         r # q => inv[i].event[r].key # inv[i].event[q].key
    /\ Cardinality(FailedRecs(i)) = 1

Objects == Cardinality(DOMAIN s3[PROCESSED_BUCKET_NAME])

Publishes(i) ==
    Cardinality({n \in CallsAt(i) : calls[i][n].op = "publish"})

C6_OneFailureAnyStep ==
    \A i \in Invocations :
        OneFailure(i) =>
            /\ Objects = Len(inv[i].event) - 1
            /\ Publishes(i) = Len(inv[i].event) - 1
            /\ inv[i].statusCode = 200

\* C6 amended: the counts are N-1 and N-1 when the record failed before its
\* object was stored (key check, fetch, decode/resize, put); a record that
\* failed at presign or publish has left its processed object (N objects), and
\* one that failed at publish or delete has had its publish call made (N calls).
C6_OneFailureByStep ==
    \A i \in Invocations :
        OneFailure(i) =>
            LET N == Len(inv[i].event)
                step == FailedAt(i, CHOOSE r \in FailedRecs(i) : TRUE)
            IN /\ Objects = IF step \in {"key", "get", "resize", "put"} THEN N - 1 ELSE N
               /\ Publishes(i) = IF step \in {"publish", "delete"} THEN N ELSE N - 1
               /\ inv[i].statusCode = 200

C6_Witness ==
    \E i \in Invocations :
        /\ OneFailure(i)
        /\ Len(inv[i].event) = 2
        /\ FailedAt(i, CHOOSE r \in FailedRecs(i) : TRUE) = "get"
        /\ Objects = 1

\* C2 as stated: a message leaves the queue only when all steps succeeded for
\* its record in an invocation it was delivered to.
C2_RemovedOnlyAfterSuccess ==
    \A m \in 1 .. Len(sent) :
        m \notin queue =>
            \E i \in Invocations :
                m \in inv[i].msgs /\ Succeeded(i) = 1 .. Len(inv[i].event)

\* C2 amended: the handler returns whether or not the steps succeeded (a
\* failure at fetch, decode, put, presign, publish or delete is caught), and a
\* message leaves the queue exactly by an invocation it was delivered to having
\* returned: a record whose processing failed is removed like any other.
C2_RemovedWhenReturned ==
    /\ \A i \in Invocations : inv[i].pc \notin {"raised", "failed"}
    /\ \A i \in Invocations : inv[i].pc = "acked" => inv[i].msgs \cap queue = {}
    /\ \A m \in 1 .. Len(sent) :
         m \notin queue => \E i \in Invocations : m \in inv[i].msgs /\ inv[i].pc = "acked"

C2_Witness ==
    \E i \in Invocations :
        /\ inv[i].pc = "acked"
        /\ FailedRecs(i) # {}
        /\ inv[i].msgs # {}
        /\ inv[i].msgs \cap queue = {}

\* C9: the same notification delivered to several invocations: none raises,
\* and once the queue is empty and every invocation is over the storage is as
\* after a single delivery (an image that encodes: processed object stored
\* under "processed-" + key, source object gone; other content: untouched).
AllOver == queue = {} /\ \A i \in Invocations : inv[i].pc \in {"idle", "acked"}

C9_DuplicateDeliveryTolerated ==
    /\ \A i \in Invocations : inv[i].pc \notin {"raised", "failed"}
    /\ AllOver =>
         LET k == sent[1].key
             c == inv[CHOOSE i \in Invocations :
                            \E n \in CallsAt(i) :
                                calls[i][n].op = "get_object" /\ calls[i][n].ok].s3_file_content
             pk == <<"processed-">> \o k
         IN IF c.img /\ c.w \div 2 > 0 /\ c.h \div 2 > 0
            THEN /\ k \notin DOMAIN s3[RAW_BUCKET]
                 /\ DOMAIN s3[RESIZED_BUCKET] = {pk}
                 /\ s3[RESIZED_BUCKET][pk] =
                        [img |-> TRUE, id |-> c.id, w |-> c.w \div 2, h |-> c.h \div 2]
            ELSE /\ s3[RAW_BUCKET] = (k :> c)
                 /\ DOMAIN s3[RESIZED_BUCKET] = {}

\* Two invocations of the one notification have both deleted the source
\* object, the second one when it was already gone.
C9_Witness ==
    /\ AllOver
    /\ \E i, j \in Invocations :
         /\ i # j
         /\ \E n \in CallsAt(i) : calls[i][n].op = "delete_object" /\ calls[i][n].ok
         /\ \E n \in CallsAt(j) : calls[j][n].op = "delete_object" /\ calls[j][n].ok

\* C10 as stated: a processed object, once stored, keeps its content.
C10_ProcessedNeverChanges ==
    [][\A pk \in DOMAIN s3[RESIZED_BUCKET] :
          /\ pk \in DOMAIN s3'[RESIZED_BUCKET]
          /\ s3'[RESIZED_BUCKET][pk] = s3[RESIZED_BUCKET][pk]]_vars

\* C10 amended: a processed object is never removed, and its content changes
\* only by the put_object step of a handler invocation for its key, which
\* stores the halved re-encoding of what that invocation fetched.
C10_ProcessedChangesOnlyByPut ==
    [][\A pk \in DOMAIN s3[RESIZED_BUCKET] :
          /\ pk \in DOMAIN s3'[RESIZED_BUCKET]
          /\ s3'[RESIZED_BUCKET][pk] # s3[RESIZED_BUCKET][pk] =>
               \E i \in Invocations :
                   /\ inv[i].pc = "put"
                   /\ inv'[i].pc = "presign"
                   /\ pk = <<"processed-">> \o inv[i].file_key
                   /\ s3'[RESIZED_BUCKET][pk] =
                          [img |-> TRUE, id |-> inv[i].s3_file_content.id,
                           w |-> inv[i].s3_file_content.w \div 2,
                           h |-> inv[i].s3_file_content.h \div 2]]_vars

\* A processed object holds other content than an earlier put_object stored
\* under its key.
C10_Witness ==
    \E i \in Invocations : \E n \in CallsAt(i) :
        /\ calls[i][n].op = "put_object"
        /\ calls[i][n].ok
        /\ calls[i][n].key \in DOMAIN s3[RESIZED_BUCKET]
        /\ s3[RESIZED_BUCKET][calls[i][n].key] # calls[i][n].body

\* ------------------------------------------------------------------ C11
\* No invocation is running and the queue holds no notification.
Quiescent ==
    /\ queue = {}
    /\ \A i \in Invocations : inv[i].pc = "idle"

\* C11: a processed object never re-triggers the pipeline.  At every moment
\* the notifications enqueued so far are exactly those of the objects created
\* in the raw bucket (one per client upload, each naming the raw bucket, none
\* for a put_object of the handler), and under fair scheduling the system
\* comes to rest with an empty queue and no running invocation.
C11_NoRetrigger ==
    /\ [](/\ Len(sent) = uploads
          /\ \A n \in 1 .. Len(sent) : sent[n].bucket = RAW_BUCKET)
    /\ <>[]Quiescent

\* Both uploads are made, a processed object was stored by the handler, and
\* the system is at rest with as many notifications as uploads.
C11_Witness ==
    /\ uploads = MaxUploads
    /\ Len(sent) = uploads
    /\ DOMAIN s3[RESIZED_BUCKET] # {}
    /\ Quiescent

\* ------------------------------------------------------------------ C12
\* Record r of invocation i's event names the destination bucket as its
\* source, and the handler is through with it.
GuardRecordDone(i, r) ==
    /\ inv[i].event[r].shape = "ok"
    /\ inv[i].event[r].bucket = PROCESSED_BUCKET_NAME
    /\ \/ inv[i].idx > r
       \/ inv[i].idx = r /\ inv[i].pc = "raised"

\* No get_object, put_object or delete_object call was made for record r.
NoStorageCall(i, r) ==
    /\ CallIdx(i, r, "get_object") = {}
    /\ CallIdx(i, r, "put_object") = {}
    /\ CallIdx(i, r, "delete_object") = {}

\* C12: for a record whose source bucket equals the destination bucket the
\* handler makes no get_object, put_object or delete_object call, and its
\* print of the guard's message (line 87) has run exactly once for the record.
C12_GuardSilentAndLoggedOnce ==
    \A i \in Invocations : \A r \in 1 .. Len(inv[i].event) :
        GuardRecordDone(i, r)
            => /\ NoStorageCall(i, r)
               /\ Cardinality(LineIdx(i, r, 87)) = 1

\* The part of C12 that holds: the guard record reaches no storage call.
C12_NoStorageCallForGuardRecord ==
    \A i \in Invocations : \A r \in 1 .. Len(inv[i].event) :
        GuardRecordDone(i, r) => NoStorageCall(i, r)

\* ------------------------------------------------------------------ C13
\* The resize calls of invocation i.
ResizeCalls(i) == {n \in CallsAt(i) : calls[i][n].op = "resize"}

\* t is the floor of n / 2.
IsFloorOfHalf(t, n) == 2 * t <= n /\ n < 2 * t + 2

\* C13: for a source image of any width and height in 1 .. MaxSide, the size
\* passed to resize is the floor of half the width and the floor of half the
\* height; an axis of 1 pixel gives a target dimension of 0.
C13_TargetSizeIsFloorOfHalf ==
    \A n \in ResizeCalls(1) :
        LET source == inv[1].s3_file_content
            target == calls[1][n].body
        IN /\ IsFloorOfHalf(target.w, source.w)
           /\ IsFloorOfHalf(target.h, source.h)
           /\ source.w = 1 => target.w = 0
           /\ source.h = 1 => target.h = 0

\* A resize call for an image 1 pixel wide and MaxSide high: it is passed a
\* zero width and fails.
C13_Witness ==
    \E n \in ResizeCalls(1) :
        /\ inv[1].s3_file_content.w = 1
        /\ inv[1].s3_file_content.h = MaxSide
        /\ calls[1][n].body.w = 0
        /\ calls[1][n].body.h = MaxSide \div 2
        /\ ~calls[1][n].ok

\* ------------------------------------------------------------------ C14
\* C14: a route of the gateway answers with the 200 success response exactly
\* when the call it forwarded (the put into the bucket, the Subscribe to the
\* topic) succeeded; a forwarded call that failed does not get the success
\* response.
C14_SuccessResponseIffForwardedOk ==
    \A r \in gateway.responses : r.statusCode = 200 <=> r.ok

\* The part of C14 that holds: no step of the handler, whatever its outcome,
\* changes a response of the gateway.
C14_ResponseIndependentOfResize ==
    [][(\E i \in Invocations : Step(i, BOOLEAN)) => gateway' = gateway]_vars

\* ------------------------------------------------------------------ C15
\* C15: for POSTs to /subscribe whose body has an email field, whatever other
\* fields it has, there is exactly one Subscribe call per POST, in order; its
\* Protocol is "email", its TopicArn the provisioned topic and its Endpoint
\* the email of the body.
C15_OneFixedSubscribePerPost ==
    /\ Len(gateway.subscribe_calls) = Len(gateway.subscribe_requests)
    /\ \A n \in 1 .. Len(gateway.subscribe_requests) :
         /\ gateway.subscribe_calls[n].Protocol = "email"
         /\ gateway.subscribe_calls[n].TopicArn = SNS_TOPIC_ARN
         /\ gateway.subscribe_calls[n].Endpoint = gateway.subscribe_requests[n]["email"]

\* A POST whose body names a Protocol and a TopicArn of its own besides the
\* email was forwarded.
C15_Witness ==
    \E n \in 1 .. Len(gateway.subscribe_calls) :
        /\ DOMAIN gateway.subscribe_requests[n] = {"email", "Protocol", "TopicArn"}
        /\ gateway.subscribe_requests[n]["Protocol"] # "email"
        /\ gateway.subscribe_requests[n]["TopicArn"] # SNS_TOPIC_ARN
        /\ gateway.subscribe_calls[n].Endpoint = "user@example.com"

\* ------------------------------------------------------------------ C16
\* C16: whenever the delete_object of an invocation removes the object at
\* (source bucket, key), the content removed is the content that invocation
\* fetched (and, having come to its delete, stored a processed object from):
\* no uploaded content is deleted without having been processed.
C16_DeletesOnlyWhatItProcessed ==
    [][\A i \in Invocations :
         LET b == inv[i].source_bucket_name
             k == inv[i].file_key
         IN (/\ inv[i].pc = "delete"
             /\ inv'[i] # inv[i]
             /\ S3Has(b, k)
             /\ k \notin DOMAIN s3'[b])
            => s3[b][k] = inv[i].s3_file_content]_vars

====
